---- MODULE Spec2Model ----
(***************************************************************************)
(* Exclusive-Server: the product and auth services over their MongoDB      *)
(* collections (Products, Users), as a state machine.  One request slot    *)
(* runs one service call; a call is split at the awaits that touch         *)
(* storage, so that calls of different slots interleave there.             *)
(***************************************************************************)
EXTENDS Integers, Sequences, FiniteSets, TLC

----------------------------------------------------------------------------
(* Bounds of the model *)

MaxCreates == 3      \* product documents ever inserted (the _id counter)
MaxUsers == 2        \* user documents ever inserted
Req == {"r1", "r2"}  \* request slots: r1 alone in the sequential specifications
Main == "r1"

----------------------------------------------------------------------------
(* JavaScript values *)

NaN == 0 - 1                         \* Number(x) of a non-numeric x
Undefined == [t |-> "undefined"]
Str(s) == [t |-> "string", s |-> s]  \* s: a sequence of character codes
Num(n) == [t |-> "number", n |-> n]

\* !x
Falsy(x) ==
    \/ x.t = "undefined"
    \/ x.t = "string" /\ Len(x.s) = 0
    \/ x.t = "number" /\ (x.n = 0 \/ x.n = NaN)

RECURSIVE Decimal(_)
Decimal(s) ==
    IF s = <<>> THEN 0
    ELSE 10 * Decimal(SubSeq(s, 1, Len(s) - 1)) + (s[Len(s)] - 48)

\* Number(x)
ToNumber(x) ==
    CASE x.t = "undefined" -> NaN
      [] x.t = "number" -> x.n
      [] x.t = "string" ->
            IF \A i \in 1..Len(x.s) : x.s[i] \in 48..57   \* "0".."9"
            THEN Decimal(x.s) ELSE NaN

----------------------------------------------------------------------------
(* Envelopes: utils/ApiSuccess, utils/ApiError, and raw exceptions *)

NoData == [none |-> TRUE]
Null == [null |-> TRUE]

ApiSuccess(code, status, data) ==
    [kind |-> "ApiSuccess", code |-> code, status |-> status, details |-> "",
     data |-> data]
ApiError(code, status) ==
    [kind |-> "ApiError", code |-> code, status |-> status, details |-> "",
     data |-> NoData]
\* new ApiError({..., details: error.message}): the message of the error
\* wrapped is kept, here as that error's code
ApiErrorOf(code, status, error) ==
    [kind |-> "ApiError", code |-> code, status |-> status,
     details |-> error.code, data |-> NoData]
\* an exception that is no ApiError: a Mongoose, driver or runtime error
RawError(name) ==
    [kind |-> "raw", code |-> name, status |-> 0, details |-> "",
     data |-> NoData]
NoResult ==
    [kind |-> "none", code |-> "", status |-> 0, details |-> "",
     data |-> NoData]

----------------------------------------------------------------------------
(* Products collection: models/productModel.js *)

NoDisc == 0 - 1      \* discountPrice undefined
Absent == 0 - 2      \* a key that the object does not have

Max(S) == CHOOSE m \in S : \A x \in S : x <= m
Ids(prods) == {q.id : q \in prods}

\* productSchema.price: required, min 1
PriceValid(price) == price /= Absent /\ price >= 1

\* mutant: no validator on discountPrice
DiscountValid_off(value, price) == TRUE

\* productSchema.discountPrice.validate.validator, with this.price = price
DiscountValid(value, price) ==
    value = NoDisc \/ value = 0 \/ value < price

\* the other required paths (title, ratingCount, avgRate, mainImgSRC, ...):
\* rest is TRUE when all of them pass their validators
RestValid(data) == data.rest

\* Document.validate() of a new document: every path
ProductValid(data) ==
    /\ PriceValid(data.price)
    /\ DiscountValid(data.disc, data.price)
    /\ RestValid(data)

\* mutant: the unique index on id is not there
IdIndexAllows_off(prods, id) == TRUE

\* unique: true on productSchema.id
IdIndexAllows(prods, id) == id \notin Ids(prods)

----------------------------------------------------------------------------
(* ProductRepository *)

\* findWithID
findWithID(prods, id) ==
    IF Falsy(id) THEN Null
    ELSE IF ToNumber(id) = NaN THEN Null
    ELSE IF \E q \in prods : q.id = ToNumber(id)
         THEN CHOOSE q \in prods : q.id = ToNumber(id)
         ELSE Null

\* mutant: the number of products for the greatest id
getLastId_count(prods) == Cardinality(prods)

\* getLastId
getLastId(prods) == IF prods = {} THEN 0 ELSE Max(Ids(prods))

----------------------------------------------------------------------------
(* State *)

VARIABLES
    products,   \* the Products collection: a set of documents
    nextOid,    \* the next _id the storage engine hands out
    pc,         \* per request slot: where its service call stands
    call,       \* per request slot: the operation called and its arguments
    loc,        \* per request slot: the local the call holds across its await
    res,        \* per request slot: what the call returned or threw
    ops,        \* per request slot: storage operations the call has issued
    retired,    \* history: the ids of the products deleted so far
    users,      \* the Users collection: a set of documents
    nextUid,    \* the next _id of a user document
    env,        \* process.env: JWT_SECRET, JWT_EXPIRES_IN
    http        \* per request slot: the HTTP request and its response

vars == <<products, nextOid, pc, call, loc, res, ops, retired, users, nextUid,
          env, http>>
authVars == <<users, nextUid, env>>
productVars == <<products, nextOid, retired>>

NoCall == [op |-> "none"]
NoOps == [reads |-> 0, writes |-> 0]

\* ids as callers pass them: req.params.id is a string; the services accept
\* string|number
\* "", "a", "0".."3" and the numbers 0, 1
IdArgs ==
    {Undefined, Str(<<>>), Str(<<97>>), Num(0), Num(1)}
        \cup {Str(<<48 + n>>) : n \in {0, 1, 2, 3}}

Prices == {0, 1, 2}
Discounts == {NoDisc, 1, 2}

\* req.body of POST /products/create: no body; objects whose other paths
\* are valid, without an id key; one with price and discountPrice 0; one
\* that brings its own id; one with an invalid path
CreateArgs ==
    {Undefined}
        \cup [t : {"object"}, id : {Absent}, price : Prices, disc : Discounts,
              rest : {TRUE}]
        \cup [t : {"object"}, id : {Absent}, price : {0}, disc : {0},
              rest : {TRUE}]
        \cup [t : {"object"}, id : {1}, price : {2}, disc : {NoDisc, 1},
              rest : {TRUE}]
        \cup [t : {"object"}, id : {Absent}, price : {1}, disc : {NoDisc},
              rest : {FALSE}]

\* req.body of PUT /products/:id: no body; {}; patches of price and
\* discountPrice; patches of id alone
PatchArgs ==
    {Undefined}
        \cup [t : {"object"}, id : {Absent}, price : {Absent} \cup Prices,
              disc : {Absent, 1, 2}]
        \cup [t : {"object"}, id : {1, 2, 3}, price : {Absent},
              disc : {Absent}]

PatchFields == {"id", "price", "disc"}
\* Object.keys(updateData)
Keys(patch) == {k \in PatchFields : patch[k] /= Absent}

\* the .env of the README: JWT_SECRET set, JWT_EXPIRES_IN not mentioned
ReadmeEnv == [JWT_SECRET |-> Str("key"), JWT_EXPIRES_IN |-> Undefined]

\* deployments: with or without either variable; JWT_EXPIRES_IN "7d" or "1h"
Envs ==
    [JWT_SECRET : {Undefined, Str("key")},
     JWT_EXPIRES_IN : {Undefined, Str(<<55, 100>>), Str(<<49, 104>>)}]

\* no HTTP request received
NoHttp == [route |-> "none"]

\* no request in flight
InitSlots ==
    /\ pc = [p \in Req |-> "idle"]
    /\ call = [p \in Req |-> NoCall]
    /\ loc = [p \in Req |-> Null]
    /\ res = [p \in Req |-> NoResult]
    /\ ops = [p \in Req |-> NoOps]
    /\ http = [p \in Req |-> NoHttp]

\* empty collections, no request in flight
InitStore ==
    /\ InitSlots
    /\ products = {}
    /\ nextOid = 1
    /\ retired = {}
    /\ users = {}
    /\ nextUid = 1

Init == InitStore /\ env = ReadmeEnv

AuthInit == InitStore /\ env \in Envs

\* the call ends: it returns r (an ApiSuccess) or throws r
Finish(p, r) ==
    /\ pc' = [pc EXCEPT ![p] = "done"]
    /\ res' = [res EXCEPT ![p] = r]
    /\ UNCHANGED loc

\* the call goes on past its await, holding local l
Await(p, at, l) ==
    /\ pc' = [pc EXCEPT ![p] = at]
    /\ loc' = [loc EXCEPT ![p] = l]
    /\ UNCHANGED res

Reads(p, n) == ops' = [ops EXCEPT ![p].reads = @ + n]
Writes(p, n) == ops' = [ops EXCEPT ![p].writes = @ + n]

\* the controller has answered: the slot is free for the next request
Return(p) ==
    /\ pc[p] = "done"
    /\ pc' = [pc EXCEPT ![p] = "idle"]
    /\ call' = [call EXCEPT ![p] = NoCall]
    /\ res' = [res EXCEPT ![p] = NoResult]
    /\ ops' = [ops EXCEPT ![p] = NoOps]
    /\ loc' = [loc EXCEPT ![p] = Null]
    /\ UNCHANGED <<products, nextOid, retired, authVars, http>>

----------------------------------------------------------------------------
(* ProductService.create *)

\* the catch block of create: every error is wrapped
createCatch(error) == ApiErrorOf("PRODUCT_CREATE_ERROR", 500, error)

\* mutant: an id in the data is kept
assignId_keep(productData, lastId) ==
    IF productData.id /= Absent THEN productData
    ELSE [productData EXCEPT !.id = lastId + 1]

\* productData.id = lastId + 1
assignId(productData, lastId) == [productData EXCEPT !.id = lastId + 1]

\* creates in flight between their read and their insert
Inserting == Cardinality({q \in Req : pc[q] = "create_insert"})

\* up to the await of ProductRepository.getLastId(), and its result
CreateRead(p) ==
    /\ pc[p] = "idle"
    /\ nextOid + Inserting <= MaxCreates
    /\ \E productData \in CreateArgs, dbOk \in BOOLEAN :
        /\ call' = [call EXCEPT ![p] = [op |-> "create", data |-> productData]]
        /\ IF Falsy(productData)
           THEN /\ Finish(p, createCatch(ApiError("MISSING_PRODUCT_DATA", 400)))
                /\ UNCHANGED ops
           ELSE IF ~dbOk
           THEN /\ Finish(p, createCatch(RawError("MongoNetworkError")))
                /\ Reads(p, 1)
           ELSE /\ Await(p, "create_insert", Num(getLastId(products)))
                /\ Reads(p, 1)
    /\ UNCHANGED <<products, nextOid, retired, authVars, http>>

\* ProductRepository.create(productData) and the return
CreateInsert(p) ==
    /\ pc[p] = "create_insert"
    /\ \E dbOk \in BOOLEAN :
        LET data == assignId(call[p].data, loc[p].n)
            doc == [oid |-> nextOid, id |-> data.id, price |-> data.price,
                    disc |-> data.disc]
        IN  IF ~ProductValid(data)
            THEN /\ Finish(p, createCatch(RawError("ValidationError")))
                 /\ UNCHANGED <<products, nextOid, ops>>
            ELSE IF ~dbOk
            THEN /\ Finish(p, createCatch(RawError("MongoNetworkError")))
                 /\ Writes(p, 1)
                 /\ UNCHANGED <<products, nextOid>>
            ELSE IF ~IdIndexAllows(products, data.id)
            THEN /\ Finish(p, createCatch(RawError("MongoServerError")))
                 /\ Writes(p, 1)
                 /\ UNCHANGED <<products, nextOid>>
            ELSE /\ products' = products \cup {doc}
                 /\ nextOid' = nextOid + 1
                 /\ Finish(p, ApiSuccess("PRODUCT_CREATED", 201, doc))
                 /\ Writes(p, 1)
    /\ UNCHANGED <<call, retired, authVars, http>>

----------------------------------------------------------------------------
(* ProductService.update *)

\* the catch block of update: every error is wrapped
updateCatch(error) == ApiErrorOf("PRODUCT_UPDATE_ERROR", 500, error)

\* Object.assign(existingProduct, updatedData), on the schema's paths
assign(doc, patch) ==
    [oid |-> doc.oid,
     id |-> IF patch.id /= Absent THEN patch.id ELSE doc.id,
     price |-> IF patch.price /= Absent THEN patch.price ELSE doc.price,
     disc |-> IF patch.disc /= Absent THEN patch.disc ELSE doc.disc]

\* the paths Mongoose marks modified: set to a value other than the loaded one
Modified(doc, patch) == {k \in Keys(patch) : patch[k] /= doc[k]}

\* Document.validate() of a loaded document: the required paths and the
\* modified ones (discountPrice is not required)
SaveValid(doc, modified) ==
    /\ PriceValid(doc.price)
    /\ "disc" \in modified => DiscountValid(doc.disc, doc.price)

\* mutant: the stored document is replaced by the patch
setPaths_replace(stored, doc, modified) ==
    [oid |-> stored.oid,
     id |-> IF "id" \in modified THEN doc.id ELSE stored.id,
     price |-> IF "price" \in modified THEN doc.price ELSE stored.price,
     disc |-> IF "disc" \in modified THEN doc.disc ELSE NoDisc]

\* the stored document after updateOne({_id}, {$set: the modified paths})
setPaths(stored, doc, modified) ==
    [oid |-> stored.oid,
     id |-> IF "id" \in modified THEN doc.id ELSE stored.id,
     price |-> IF "price" \in modified THEN doc.price ELSE stored.price,
     disc |-> IF "disc" \in modified THEN doc.disc ELSE stored.disc]

\* mutant: save() writes the loaded document back whether it is stored or not
stored_upsert(prods, doc) == {doc}

\* the stored documents that save() addresses: those with the _id of doc
stored(prods, doc) == {s \in prods : s.oid = doc.oid}

\* the validations, then up to the await of findWithID(numericId)
UpdateFind(p) ==
    /\ pc[p] = "idle"
    /\ \E id \in IdArgs, updateData \in PatchArgs, dbOk \in BOOLEAN :
        /\ call' = [call EXCEPT ![p] =
                        [op |-> "update", id |-> id, patch |-> updateData]]
        /\ IF Falsy(id)
           THEN /\ Finish(p, updateCatch(ApiError("MISSING_PRODUCT_ID", 400)))
                /\ UNCHANGED ops
           ELSE IF ToNumber(id) = NaN
           THEN /\ Finish(p, updateCatch(ApiError("INVALID_PRODUCT_ID", 400)))
                /\ UNCHANGED ops
           ELSE IF Falsy(updateData) \/ Keys(updateData) = {}
           THEN /\ Finish(p, updateCatch(ApiError("MISSING_UPDATE_DATA", 400)))
                /\ UNCHANGED ops
           ELSE IF ~dbOk
           THEN /\ Finish(p, updateCatch(RawError("MongoNetworkError")))
                /\ Reads(p, 1)
           ELSE IF findWithID(products, Num(ToNumber(id))) = Null
           THEN /\ Finish(p, updateCatch(ApiError("PRODUCT_NOT_FOUND", 404)))
                /\ Reads(p, 1)
           ELSE /\ Await(p, "update_save",
                         findWithID(products, Num(ToNumber(id))))
                /\ Reads(p, 1)
    /\ UNCHANGED <<products, nextOid, retired, authVars, http>>

\* ProductRepository.update(existingProduct, updateData) and the return
UpdateSave(p) ==
    /\ pc[p] = "update_save"
    /\ \E dbOk \in BOOLEAN :
        LET doc == assign(loc[p], call[p].patch)
            modified == Modified(loc[p], call[p].patch)
            others == {q \in products : q.oid /= doc.oid}
        IN  IF ~SaveValid(doc, modified)
            THEN /\ Finish(p, updateCatch(RawError("ValidationError")))
                 /\ UNCHANGED <<products, ops>>
            ELSE IF modified = {}
            THEN \* nothing to write: save() looks the document up by _id
                 \* and rejects when it is not there
                 /\ Finish(p, IF ~dbOk
                              THEN updateCatch(RawError("MongoNetworkError"))
                              ELSE IF stored(products, doc) = {}
                              THEN updateCatch(
                                        RawError("DocumentNotFoundError"))
                              ELSE ApiSuccess("PRODUCT_UPDATED", 200, doc))
                 /\ Reads(p, 1)
                 /\ UNCHANGED products
            ELSE IF ~dbOk
            THEN /\ Finish(p, updateCatch(RawError("MongoNetworkError")))
                 /\ Writes(p, 1)
                 /\ UNCHANGED products
            ELSE IF stored(products, doc) = {}
            THEN /\ Finish(p, updateCatch(RawError("DocumentNotFoundError")))
                 /\ Writes(p, 1)
                 /\ UNCHANGED products
            ELSE IF "id" \in modified /\ ~IdIndexAllows(others, doc.id)
            THEN /\ Finish(p, updateCatch(RawError("MongoServerError")))
                 /\ Writes(p, 1)
                 /\ UNCHANGED products
            ELSE /\ products' = others \cup
                        {setPaths(q, doc, modified) :
                            q \in stored(products, doc)}
                 /\ Finish(p, ApiSuccess("PRODUCT_UPDATED", 200, doc))
                 /\ Writes(p, 1)
    /\ UNCHANGED <<nextOid, call, retired, authVars, http>>

----------------------------------------------------------------------------
(* ProductService.delete *)

\* mutant: every product is removed
deleteById_all(prods, id) == {}

\* mutant: the catch block wraps every error, as that of create does
deleteCatch_wrap(error) == ApiErrorOf("PRODUCT_DELETE_ERROR", 500, error)

\* the catch block of delete: an ApiError is re-thrown, anything else wrapped
deleteCatch(error) ==
    IF error.kind = "ApiError" THEN error
    ELSE ApiErrorOf("PRODUCT_DELETE_ERROR", 500, error)

\* the validations, then up to the await of findWithID(numericId)
DeleteFind(p) ==
    /\ pc[p] = "idle"
    /\ \E id \in IdArgs, dbOk \in BOOLEAN :
        /\ call' = [call EXCEPT ![p] = [op |-> "delete", id |-> id]]
        /\ IF Falsy(id)
           THEN /\ Finish(p, deleteCatch(ApiError("MISSING_PRODUCT_ID", 400)))
                /\ UNCHANGED ops
           ELSE IF ToNumber(id) = NaN
           THEN /\ Finish(p, deleteCatch(ApiError("INVALID_PRODUCT_ID", 400)))
                /\ UNCHANGED ops
           ELSE IF ~dbOk
           THEN /\ Finish(p, deleteCatch(RawError("MongoNetworkError")))
                /\ Reads(p, 1)
           ELSE IF findWithID(products, Num(ToNumber(id))) = Null
           THEN /\ Finish(p, deleteCatch(ApiError("PRODUCT_NOT_FOUND", 404)))
                /\ Reads(p, 1)
           ELSE /\ Await(p, "delete_remove", Num(ToNumber(id)))
                /\ Reads(p, 1)
    /\ UNCHANGED <<products, nextOid, retired, authVars, http>>

\* ProductRepository.deleteById: Product.findOneAndDelete({ id })
deleteById(prods, id) == {q \in prods : q.id /= id}

\* ProductRepository.deleteById(numericId) and the return
DeleteRemove(p) ==
    /\ pc[p] = "delete_remove"
    /\ \E dbOk \in BOOLEAN :
        IF ~dbOk
        THEN /\ Finish(p, deleteCatch(RawError("MongoNetworkError")))
             /\ Writes(p, 1)
             /\ UNCHANGED <<products, retired>>
        ELSE /\ products' = deleteById(products, loc[p].n)
             /\ retired' = retired \cup (Ids(products) \ Ids(products'))
             /\ Finish(p, ApiSuccess("PRODUCT_DELETED", 200,
                                     findWithID(products, loc[p])))
             /\ Writes(p, 1)
    /\ UNCHANGED <<nextOid, call, authVars, http>>

----------------------------------------------------------------------------
(* ProductService.getProductById *)

\* mutant: the catch block wraps every error, as that of update does
getCatch_wrap(error) == ApiErrorOf("PRODUCT_FETCH_ERROR", 500, error)

\* the catch block of getProductById
getCatch(error) ==
    IF error.kind = "ApiError" THEN error
    ELSE ApiErrorOf("PRODUCT_FETCH_ERROR", 500, error)

GetProductById(p) ==
    /\ pc[p] = "idle"
    /\ \E id \in IdArgs, dbOk \in BOOLEAN :
        /\ call' = [call EXCEPT ![p] = [op |-> "get", id |-> id]]
        /\ IF Falsy(id)
           THEN /\ Finish(p, getCatch(ApiError("MISSING_PRODUCT_ID", 400)))
                /\ UNCHANGED ops
           ELSE IF ToNumber(id) = NaN
           THEN \* findWithID returns null before it queries
                /\ Finish(p, getCatch(ApiError("PRODUCT_NOT_FOUND", 404)))
                /\ UNCHANGED ops
           ELSE IF ~dbOk
           THEN /\ Finish(p, getCatch(RawError("MongoNetworkError")))
                /\ Reads(p, 1)
           ELSE IF findWithID(products, id) = Null
           THEN /\ Finish(p, getCatch(ApiError("PRODUCT_NOT_FOUND", 404)))
                /\ Reads(p, 1)
           ELSE /\ Finish(p, ApiSuccess("PRODUCT_FETCHED", 200,
                                        findWithID(products, id)))
                /\ Reads(p, 1)
    /\ UNCHANGED <<products, nextOid, retired, authVars, http>>

----------------------------------------------------------------------------
(* ProductService.getAllProducts *)

DefaultLimit == 10   \* the page size when the query gives none

Min(a, b) == IF a <= b THEN a ELSE b

\* a query parameter coerced to an integer >= 1, or the default
Coerce(x, default) ==
    IF /\ x.t = "string" /\ Len(x.s) > 0
       /\ \A i \in 1..Len(x.s) : x.s[i] \in 48..57
       /\ Decimal(x.s) >= 1
    THEN Decimal(x.s) ELSE default

\* query[key], undefined when the query has no such key
Get(query, key) == IF key \in DOMAIN query THEN query[key] ELSE Undefined

\* the query keys that select documents, and those that page and order them
FilterParams ==
    {"category", "subCategory", "minPrice", "maxPrice", "isFeatured",
     "isFlash"}
OptionParams == {"page", "limit", "sort", "random"}

\* a bound of the price range: the number given, or none
Bound(x) ==
    IF x.t = "undefined" \/ ToNumber(x) = NaN THEN Absent ELSE ToNumber(x)

\* mutant: every key of the query that has a value, but those that page and
\* order, becomes a field of the filter
filterFields_all(query) ==
    {k \in DOMAIN query \ OptionParams : query[k].t /= "undefined"}

\* the fields the filter constrains: those whose parameter has a usable value
filterFields(query) ==
    {k \in {"category", "subCategory"} : Get(query, k).t = "string"}
        \cup {k \in {"isFeatured", "isFlash"} :
                Get(query, k) \in {Str("true"), Str("false")}}
        \cup {k \in {"price"} :
                \/ Bound(Get(query, "minPrice")) /= Absent
                \/ Bound(Get(query, "maxPrice")) /= Absent}

\* mutant: the offset of the page after the one asked for
skipOf_next(page, limit) == page * limit

\* options.skip
skipOf(page, limit) == (page - 1) * limit

\* mutant: a page that is not a number is passed on as it is
pageOf_raw(x) ==
    IF x.t = "undefined" THEN 1
    ELSE IF ToNumber(x) = NaN THEN 0 ELSE ToNumber(x)

\* options.page
pageOf(x) == Coerce(x, 1)

\* utils/builder.js, buildQueryOptions: the query normalizer
buildQueryOptions(query) ==
    LET limit == Coerce(Get(query, "limit"), DefaultLimit)
        page == pageOf(Get(query, "page"))
        sort == Get(query, "sort")
    IN  [filter |->
            [k \in filterFields(query) |->
                CASE k = "price" ->
                        [gte |-> Bound(Get(query, "minPrice")),
                         lte |-> Bound(Get(query, "maxPrice"))]
                  [] k \in {"isFeatured", "isFlash"} ->
                        Get(query, k) = Str("true")
                  [] OTHER -> Get(query, k)],
         options |->
            [random |-> Get(query, "random") = Str("true"),
             page |-> page,
             limit |-> limit,
             skip |-> skipOf(page, limit),
             sort |-> IF sort = Str("price") THEN "price"
                      ELSE IF sort = Str("-price") THEN "-price"
                      ELSE "natural"]]

\* req.query of GET /products: filter and sort; pages; random samples
QueryArgs ==
    [minPrice : {Undefined, Str(<<50>>)}, page : {Undefined},
     limit : {Undefined}, sort : {Undefined, Str("price"), Str("-price")},
     random : {Undefined}]
        \cup [minPrice : {Undefined}, page : {Undefined, Str(<<50>>), Str(<<97>>)},
              limit : {Str(<<49>>), Str(<<48>>)}, sort : {Str("price")},
              random : {Undefined}]
        \cup [minPrice : {Undefined, Str(<<50>>)}, page : {Undefined},
              limit : {Undefined, Str(<<49>>)}, sort : {Undefined},
              random : {Str("true")}]

\* raw query maps: paging, ordering and sampling parameters, absent, numeric,
\* zero or not numbers; filter parameters, absent, usable or not; a key that is
\* no parameter; maps without most keys
QueryMaps ==
    [category : {Undefined}, subCategory : {Undefined},
     minPrice : {Undefined}, maxPrice : {Undefined},
     isFeatured : {Undefined}, isFlash : {Undefined},
     page : {Undefined, Str(<<50>>), Str(<<97>>), Str(<<48>>)},
     limit : {Undefined, Str(<<53>>), Str(<<97>>)},
     sort : {Undefined, Str("-price")}, random : {Undefined, Str("true")},
     role : {Undefined, Str("admin")}]
        \cup [category : {Undefined, Str("c")}, subCategory : {Undefined},
              minPrice : {Undefined, Str(<<53, 48>>), Str(<<97>>)},
              maxPrice : {Undefined, Str(<<49, 48, 48>>)},
              isFeatured : {Undefined, Str("true"), Str("false"), Str("x")},
              isFlash : {Undefined},
              page : {Undefined, Str(<<50>>)},
              limit : {Undefined, Str(<<53>>)},
              sort : {Undefined}, random : {Undefined},
              role : {Undefined, Str("admin")}]
        \cup [role : {Str("admin")}]
        \cup [subCategory : {Str("s")}, isFlash : {Str("false")},
              page : {Str(<<50>>), Str(<<51>>)}]

\* getAllProducts, l.29: the normalizer applied to req.query
BuildQueryOptions(p) ==
    /\ pc[p] = "idle"
    /\ call[p].op = "normalize"
    /\ Finish(p, buildQueryOptions(call[p].query))
    /\ UNCHANGED <<call, ops, productVars, authVars, http>>

\* the documents a filter selects
Matches(prods, filter) ==
    {q \in prods :
        \A k \in DOMAIN filter :
            IF k = "price"
            THEN /\ filter[k].gte /= Absent => q.price >= filter[k].gte
                 /\ filter[k].lte /= Absent => q.price <= filter[k].lte
            ELSE k \in DOMAIN q /\ q[k] = filter[k]}

\* the orders in which the documents of S can be listed
Orderings(S) ==
    {l \in [1..Cardinality(S) -> S] :
        \A i, j \in 1..Cardinality(S) : l[i] = l[j] => i = j}

\* .sort(options.sort): the order of documents with equal keys, and the
\* natural order, are the storage engine's choice
Sorted(l, sort) ==
    \A i, j \in 1..Len(l) :
        i < j => CASE sort = "price" -> l[i].price <= l[j].price
                   [] sort = "-price" -> l[i].price >= l[j].price
                   [] OTHER -> TRUE

\* mutant: a sample is paged and ordered like any other listing
findWithPagination_paged(prods, filter, options) ==
    {SubSeq(l, options.skip + 1,
            Min(Len(l), options.skip + options.limit)) :
        l \in {m \in Orderings(Matches(prods, filter)) :
                  Sorted(m, options.sort)}}

\* ProductRepository.findWithPagination: the lists the storage engine can
\* return
findWithPagination(prods, filter, options) ==
    IF options.random
    THEN UNION {Orderings(S) :
                 S \in {T \in SUBSET Matches(prods, filter) :
                            Cardinality(T) =
                                Min(options.limit,
                                    Cardinality(Matches(prods, filter)))}}
    ELSE {SubSeq(l, options.skip + 1,
                 Min(Len(l), options.skip + options.limit)) :
            l \in {m \in Orderings(Matches(prods, filter)) :
                      Sorted(m, options.sort)}}

\* filters and options as the repository can be handed them
Filters ==
    {[k \in {} |-> Absent]}
        \cup {[price |-> [gte |-> a, lte |-> b]] :
                a \in {Absent, 2}, b \in {Absent, 1, 2}}
ListOptions ==
    [random : BOOLEAN, limit : {1, 2}, skip : {0, 1, 2},
     sort : {"natural", "price", "-price"}]

\* ProductRepository.findWithPagination, called with call[p].filter and
\* call[p].options
FindWithPagination(p) ==
    /\ pc[p] = "idle"
    /\ call[p].op = "find"
    /\ \E list \in findWithPagination(products, call[p].filter,
                                       call[p].options) :
            Finish(p, list)
    /\ Reads(p, 1)
    /\ UNCHANGED <<call, productVars, authVars, http>>

\* mutant: the catch block re-throws every error as it is
getAllCatch_raw(error) == error

\* the catch block of getAllProducts
getAllCatch(error) ==
    IF error.kind = "ApiError" THEN error
    ELSE ApiErrorOf("PRODUCTS_FETCH_ERROR", 500, error)

GetAllProducts(p) ==
    /\ pc[p] = "idle"
    /\ \E query \in QueryArgs, dbOk \in BOOLEAN :
        LET q == buildQueryOptions(query)
        IN  /\ call' = [call EXCEPT ![p] = [op |-> "list", query |-> query]]
            /\ IF ~dbOk
               THEN Finish(p, getAllCatch(RawError("MongoNetworkError")))
               ELSE \E list \in findWithPagination(products, q.filter,
                                                   q.options) :
                        Finish(p, ApiSuccess("PRODUCTS_FETCHED", 200, list))
            /\ Reads(p, 1)
    /\ UNCHANGED <<products, nextOid, retired, authVars, http>>

----------------------------------------------------------------------------
(* Users collection: models/userModel.js *)

\* String.prototype.toLowerCase, on character codes (Latin-1)
ToLowerCase(s) ==
    [i \in 1..Len(s) |->
        IF s[i] \in 65..90 \/ (s[i] \in 192..222 /\ s[i] /= 215)
        THEN s[i] + 32 ELSE s[i]]

\* String.prototype.trim: spaces off both ends
RECURSIVE Trim(_)
Trim(s) ==
    IF s = <<>> THEN s
    ELSE IF s[1] = 32 THEN Trim(Tail(s))
    ELSE IF s[Len(s)] = 32 THEN Trim(SubSeq(s, 1, Len(s) - 1))
    ELSE s

\* the setters of userSchema.email: trim, lowercase
castEmail(s) == ToLowerCase(Trim(s))

\* /^[\x00-\x7F]+$/.test(value)
Ascii(s) == s /= <<>> /\ \A i \in 1..Len(s) : s[i] \in 0..127

\* validator.isEmail: one "@" after a local part, then a domain with a dot
\* inside it, and no space
IsEmail(s) ==
    /\ Cardinality({i \in 1..Len(s) : s[i] = 64}) = 1
    /\ \A i \in 1..Len(s) : s[i] /= 32
    /\ \E i \in 2..Len(s) :
        /\ s[i] = 64
        /\ \E j \in (i + 2)..(Len(s) - 1) : s[j] = 46

ROLES == [USER |-> "user", ADMIN |-> "admin"]

\* mutant: the password is stored as it came
bcryptHash_plain(password, salt) == Str(password)

\* bcrypt.hash(password, salt)
bcryptHash(password, salt) == [bcrypt |-> password, salt |-> salt]

\* bcrypt.compare(candidate, hash), for a string candidate
bcryptCompare(candidate, hash) == hash.bcrypt = candidate

Salts == {"s1", "s2"}

\* new User(userData): the setters and the default
newUser(userData) ==
    [email |-> IF userData.email.t = "string"
               THEN Str(castEmail(userData.email.s)) ELSE userData.email,
     password |-> userData.password,
     fullName |-> userData.fullName,
     role |-> IF userData.role.t = "undefined" THEN Str(ROLES.USER)
              ELSE userData.role]

\* Document.validate() of a new user
UserValid(u) ==
    /\ u.fullName.t = "string" /\ Len(u.fullName.s) >= 3
                               /\ Len(u.fullName.s) <= 50
    /\ u.email.t = "string" /\ u.email.s /= <<>>
                            /\ IsEmail(u.email.s) /\ Ascii(u.email.s)
    /\ u.password.t = "string" /\ Len(u.password.s) >= 6
    /\ u.role.s \in {ROLES.USER, ROLES.ADMIN}

\* unique: true on userSchema.email
EmailIndexAllows(us, email) == \A u \in us : u.email /= email

----------------------------------------------------------------------------
(* UserRepository *)

\* mutant: the filter is compared as given, not cast
findByEmail_exact(us, email) ==
    IF email.t /= "string" THEN Null
    ELSE IF \E u \in us : u.email = email.s
         THEN CHOOSE u \in us : u.email = email.s
         ELSE Null

\* findByEmail: User.findOne({ email }), the filter cast by the schema
findByEmail(us, email) ==
    IF email.t /= "string" THEN Null
    ELSE IF \E u \in us : u.email = castEmail(email.s)
         THEN CHOOSE u \in us : u.email = castEmail(email.s)
         ELSE Null

----------------------------------------------------------------------------
(* validators/authValidator.js *)

\* `throw new ApiError({...})` in a module that neither imports nor declares
\* ApiError: evaluating the identifier raises a ReferenceError
validatorThrow(code, status) == RawError("ReferenceError")

Passed == [kind |-> "passed"]

validateEmail(email) ==
    IF Falsy(email) THEN validatorThrow("INVALID_EMAIL", 400)
    ELSE IF ~Ascii(email.s) THEN validatorThrow("INVALID_EMAIL", 400)
    ELSE Passed

----------------------------------------------------------------------------
(* TokenService *)

\* the time span of jwt.sign's expiresIn, in seconds: ms(string) / 1000 for
\* digits followed by the unit d, h, m or s
Seconds(span) ==
    LET unit == span[Len(span)]
        n == Decimal(SubSeq(span, 1, Len(span) - 1))
    IN  CASE unit = 100 -> n * 24 * 60 * 60
          [] unit = 104 -> n * 60 * 60
          [] unit = 109 -> n * 60
          [] unit = 115 -> n

\* jwt.sign(payload, secret, { expiresIn }) at time iat (seconds): the token
\* is a string; its signing key stands for the signature
jwtSign(payload, secret, expiresIn, iat) ==
    IF Falsy(secret) THEN RawError("Error: secretOrPrivateKey must have a value")
    ELSE IF Falsy(expiresIn)
    THEN RawError("Error: expiresIn should be a number of seconds or string")
    ELSE [kind |-> "jwt", t |-> "jwt", payload |-> payload,
          secret |-> secret.s, iat |-> iat,
          exp |-> iat + Seconds(expiresIn.s)]

\* generateToken
generateToken(payload, iat) ==
    jwtSign(payload, env.JWT_SECRET, env.JWT_EXPIRES_IN, iat)

----------------------------------------------------------------------------
(* AuthService *)

\* "a@b.co", "A@b.co", "b@b.co", " a@b.co", "e-acute@b.co", "ab", ""
EmailArgs ==
    {Undefined, Str(<<>>),
     Str(<<97, 64, 98, 46, 99, 111>>), Str(<<65, 64, 98, 46, 99, 111>>),
     Str(<<98, 64, 98, 46, 99, 111>>), Str(<<32, 97, 64, 98, 46, 99, 111>>),
     Str(<<233, 64, 98, 46, 99, 111>>), Str(<<97, 98>>)}

PasswordArgs == {Undefined, Str("abc"), Str("secret1"), Str("secret2")}
NameArgs == {Undefined, Str("Al"), Str("Alice")}
RoleArgs == {Undefined, Str("admin"), Str("root")}

RegisterArgs ==
    [email : EmailArgs, password : PasswordArgs, fullName : NameArgs,
     role : RoleArgs]

\* registers in flight between their lookup and their save
Saving == Cardinality({q \in Req : pc[q] = "register_save"})

\* validateEmail, then up to the await of findByEmail(email)
RegisterFind(p) ==
    /\ pc[p] = "idle"
    /\ nextUid + Saving <= MaxUsers
    /\ \E userData \in RegisterArgs, dbOk \in BOOLEAN :
        /\ call' = [call EXCEPT ![p] = [op |-> "register", data |-> userData]]
        /\ IF validateEmail(userData.email) /= Passed
           THEN /\ Finish(p, validateEmail(userData.email))
                /\ UNCHANGED ops
           ELSE IF ~dbOk
           THEN /\ Finish(p, RawError("MongoNetworkError"))
                /\ Reads(p, 1)
           ELSE IF findByEmail(users, userData.email) /= Null
           THEN /\ Finish(p, ApiError("EMAIL_EXISTS", 400))
                /\ Reads(p, 1)
           ELSE /\ Await(p, "register_save", Null)
                /\ Reads(p, 1)
    /\ UNCHANGED <<productVars, authVars, http>>

\* userRepository.create(userData): validate, hash in pre("save"), insert
RegisterSave(p) ==
    /\ pc[p] = "register_save"
    /\ \E dbOk \in BOOLEAN, salt \in Salts :
        LET u == newUser(call[p].data)
            doc == [uid |-> nextUid, email |-> u.email.s,
                    password |-> bcryptHash(u.password.s, salt),
                    fullName |-> u.fullName.s, role |-> u.role.s]
        IN  IF ~UserValid(u)
            THEN /\ Finish(p, RawError("ValidationError"))
                 /\ UNCHANGED <<users, nextUid, ops>>
            ELSE IF ~dbOk
            THEN /\ Finish(p, RawError("MongoNetworkError"))
                 /\ Writes(p, 1)
                 /\ UNCHANGED <<users, nextUid>>
            ELSE IF ~EmailIndexAllows(users, doc.email)
            THEN /\ Finish(p, RawError("MongoServerError"))
                 /\ Writes(p, 1)
                 /\ UNCHANGED <<users, nextUid>>
            ELSE /\ users' = users \cup {doc}
                 /\ nextUid' = nextUid + 1
                 /\ Finish(p, ApiSuccess("USER_CREATED", 201,
                                         [userId |-> doc.uid]))
                 /\ Writes(p, 1)
    /\ UNCHANGED <<productVars, call, env, http>>

\* the payload of the token: id, email, fullName, role of the stored user
payloadOf(user) ==
    [id |-> user.uid, email |-> user.email, fullName |-> user.fullName,
     role |-> user.role]

\* Date.now() / 1000 when a token is signed
IssueTimes == {0, 1000}

\* what login does with the user it found, at time iat
loginResult(user, password, iat) ==
    IF user = Null THEN ApiError("USER_NOT_FOUND", 404)
    ELSE IF password.t /= "string"
    THEN RawError("Error: data and hash arguments required")
    ELSE IF ~bcryptCompare(password.s, user.password)
    THEN ApiError("INVALID_PASSWORD", 401)
    ELSE IF generateToken(payloadOf(user), iat).kind /= "jwt"
    THEN generateToken(payloadOf(user), iat)
    ELSE ApiSuccess("USER_LOGIN", 200,
                    [token |-> generateToken(payloadOf(user), iat),
                     user |-> payloadOf(user)])

LoginArgs == [email : EmailArgs, password : PasswordArgs]

\* mutant: a login that finds the user saves it with its password hashed
\* again
Login_rehash(p) ==
    /\ pc[p] = "idle"
    /\ \E credentials \in LoginArgs, dbOk \in BOOLEAN, iat \in IssueTimes,
          salt \in Salts :
        LET user == findByEmail(users, credentials.email)
        IN  /\ call' = [call EXCEPT ![p] =
                            [op |-> "login", data |-> credentials]]
            /\ IF ~dbOk
               THEN Finish(p, RawError("MongoNetworkError"))
               ELSE Finish(p, loginResult(user, credentials.password, iat))
            /\ users' = IF ~dbOk \/ user = Null THEN users
                        ELSE (users \ {user}) \cup
                                {[user EXCEPT !.password.salt = salt]}
            /\ Reads(p, 1)
    /\ UNCHANGED <<productVars, nextUid, env, http>>

\* login: findByEmail, comparePassword, generateToken
Login(p) ==
    /\ pc[p] = "idle"
    /\ \E credentials \in LoginArgs, dbOk \in BOOLEAN, iat \in IssueTimes :
        /\ call' = [call EXCEPT ![p] = [op |-> "login", data |-> credentials]]
        /\ IF ~dbOk
           THEN Finish(p, RawError("MongoNetworkError"))
           ELSE Finish(p, loginResult(findByEmail(users, credentials.email),
                                      credentials.password, iat))
        /\ Reads(p, 1)
    /\ UNCHANGED <<productVars, authVars, http>>

----------------------------------------------------------------------------
(* middleware/auth/verifyToken.js, middleware/auth/authorizeRole.js *)

\* mutant: the expiry of the token is not looked at
jwtVerify_noexp(token, secret, now) ==
    IF token.t /= "jwt" THEN RawError("JsonWebTokenError")
    ELSE IF Falsy(secret) THEN RawError("JsonWebTokenError")
    ELSE IF token.secret /= secret.s THEN RawError("JsonWebTokenError")
    ELSE [kind |-> "decoded",
          claims |-> [id |-> token.payload.id, email |-> token.payload.email,
                      fullName |-> token.payload.fullName,
                      role |-> token.payload.role,
                      iat |-> token.iat, exp |-> token.exp]]

\* jwt.verify(token, secret) at time now (seconds): the decoded payload, or
\* the error thrown, by its name
jwtVerify(token, secret, now) ==
    IF token.t /= "jwt" THEN RawError("JsonWebTokenError")         \* jwt malformed
    ELSE IF Falsy(secret) THEN RawError("JsonWebTokenError")       \* no key given
    ELSE IF token.secret /= secret.s THEN RawError("JsonWebTokenError")  \* invalid signature
    ELSE IF now >= token.exp THEN RawError("TokenExpiredError")
    ELSE [kind |-> "decoded",
          claims |-> [id |-> token.payload.id, email |-> token.payload.email,
                      fullName |-> token.payload.fullName,
                      role |-> token.payload.role,
                      iat |-> token.iat, exp |-> token.exp]]

\* what a middleware hands to next(), and req.user after it
Forward(err, user) == [err |-> err, user |-> user]

\* the catch block of verifyToken
verifyTokenCatch(err) ==
    IF err.code = "JsonWebTokenError" THEN ApiError("INVALID_TOKEN", 401)
    ELSE IF err.code = "TokenExpiredError" THEN ApiError("TOKEN_EXPIRED", 401)
    ELSE err

\* AuthMiddleware.prototype.verifyToken(req, res, next)
verifyToken(req, now) ==
    IF Falsy(req.cookies.token)
    THEN Forward(verifyTokenCatch(ApiError("NO_TOKEN", 401)), req.user)
    ELSE IF jwtVerify(req.cookies.token, env.JWT_SECRET, now).kind /= "decoded"
    THEN Forward(verifyTokenCatch(
                    jwtVerify(req.cookies.token, env.JWT_SECRET, now)),
                 req.user)
    ELSE Forward(Null,
                 jwtVerify(req.cookies.token, env.JWT_SECRET, now).claims)

\* the default export of verifyToken.js called as (req, res, next): it is
\* the class AuthMiddleware, and a class constructor called without `new`
\* throws a TypeError, which the router forwards to next(err)
AuthMiddleware(req, now) == Forward(RawError("TypeError"), req.user)

\* authorizeRole(...allowedRoles)(req, res, next)
authorizeRole(allowedRoles, req) ==
    IF req.user = Undefined
    THEN Forward(ApiError("NOT_AUTHENTICATED", 401), req.user)
    ELSE IF req.user.role \notin allowedRoles
    THEN Forward(ApiError("FORBIDDEN", 403), req.user)
    ELSE Forward(Null, req.user)

----------------------------------------------------------------------------
(* routes/productRouter.js, the controllers and the error handler *)

Routes ==
    {"GET /", "GET /:id", "POST /create", "PUT /:id", "DELETE /:id"}
AdminRoutes == {"POST /create", "PUT /:id", "DELETE /:id"}

\* the controller method a route ends in
MethodOf(route) ==
    CASE route = "GET /" -> "getAllProducts"
      [] route = "GET /:id" -> "getProductById"
      [] route = "POST /create" -> "create"
      [] route = "PUT /:id" -> "update"
      [] route = "DELETE /:id" -> "delete"

\* where the request goes: a controller method, or the error handler
Dispatch(handler, err, user) ==
    [handler |-> handler, err |-> err, user |-> user]

\* createProductRouter: the two GET routes, then router.use(verifyToken),
\* router.use(authorizeRole(Roles.ADMIN)), then the admin routes
productRouter(req, now) ==
    IF req.route \in {"GET /", "GET /:id"}
    THEN Dispatch(MethodOf(req.route), Null, req.user)
    ELSE IF AuthMiddleware(req, now).err /= Null
    THEN Dispatch("errorHandler", AuthMiddleware(req, now).err,
                  AuthMiddleware(req, now).user)
    ELSE LET verified == [req EXCEPT !.user = AuthMiddleware(req, now).user]
         IN  IF authorizeRole({ROLES.ADMIN}, verified).err /= Null
             THEN Dispatch("errorHandler",
                           authorizeRole({ROLES.ADMIN}, verified).err,
                           verified.user)
             ELSE Dispatch(MethodOf(req.route), Null, verified.user)

\* err.isOperational: what utils/ApiError sets on its instances
isOperational(err) == err.kind = "ApiError"

\* err.message: each throw site gives its code one fixed message, and the
\* message of an exception that is no ApiError goes by its name
messageOf(err) == err.code

\* mutant: the message of every error is rendered
errorHandler_leak(err) ==
    [status |-> IF isOperational(err) THEN err.status ELSE 500,
     body |-> [success |-> FALSE, message |-> messageOf(err),
               errorCode |-> IF isOperational(err) THEN err.code
                             ELSE "INTERNAL_SERVER_ERROR",
               details |-> err.details]]

\* the error handler of server.js
errorHandler(err) ==
    IF isOperational(err)
    THEN [status |-> err.status,
          body |-> [success |-> FALSE, message |-> messageOf(err),
                    errorCode |-> err.code, details |-> err.details]]
    ELSE [status |-> 500,
          body |-> [success |-> FALSE,
                    message |-> "Something went wrong! Please check logs.",
                    errorCode |-> "INTERNAL_SERVER_ERROR"]]

\* res.status(result.statusCode).json(result)
json(result) == [status |-> result.status, body |-> result]

NoResp == [status |-> 0]

\* the claims of the tokens in circulation: an admin and a user
Claims ==
    {[id |-> 1, email |-> <<97, 64, 98, 46, 99, 111>>, fullName |-> "Alice",
      role |-> ROLES.ADMIN],
     [id |-> 2, email |-> <<98, 64, 98, 46, 99, 111>>, fullName |-> "Bob",
      role |-> ROLES.USER]}

\* req.cookies.token: none, "", "x", and tokens signed at time 0 with the
\* key of this deployment or with another, for "7d" or "1h"
CookieTokens ==
    {Undefined, Str(<<>>), Str(<<120>>)}
        \cup {jwtSign(c, Str(k), Str(span), 0) :
                c \in Claims, k \in {"key", "other"},
                span \in {<<55, 100>>, <<49, 104>>}}

\* Date.now() / 1000 when a token is verified: within the hour, at the hour,
\* at the seventh day
VerifyTimes == {1, 60 * 60, 7 * 24 * 60 * 60}

\* the router receives a request and runs its middleware
Request(p) ==
    /\ pc[p] = "idle"
    /\ http[p] = NoHttp
    /\ \E route \in Routes, token \in CookieTokens, now \in VerifyTimes :
        LET req == [route |-> route, cookies |-> [token |-> token],
                    user |-> Undefined]
            to == productRouter(req, now)
        IN  http' = [http EXCEPT ![p] =
                        [route |-> route, cookies |-> req.cookies, now |-> now,
                         handler |-> to.handler, err |-> to.err,
                         user |-> to.user,
                         resp |-> IF to.handler = "errorHandler"
                                  THEN errorHandler(to.err) ELSE NoResp]]
    /\ UNCHANGED <<products, nextOid, pc, call, loc, res, ops, retired,
                   authVars>>

\* the controller method calls its service operation
Controller(p) ==
    /\ http[p] /= NoHttp
    /\ http[p].resp = NoResp
    /\ IF http[p].handler = "getAllProducts" THEN GetAllProducts(p)
       ELSE IF http[p].handler = "getProductById" THEN GetProductById(p)
       ELSE IF http[p].handler = "create"
       THEN CreateRead(p) \/ CreateInsert(p)
       ELSE IF http[p].handler = "update"
       THEN UpdateFind(p) \/ UpdateSave(p)
       ELSE IF http[p].handler = "delete"
       THEN DeleteFind(p) \/ DeleteRemove(p)
       ELSE FALSE

\* the controller method answers: the result as it is, or next(err) and the
\* error handler
Respond(p) ==
    /\ http[p] /= NoHttp
    /\ http[p].resp = NoResp
    /\ pc[p] = "done"
    /\ http' = [http EXCEPT ![p] =
                    IF res[p].kind = "ApiSuccess"
                    THEN [@ EXCEPT !.resp = json(res[p])]
                    ELSE [@ EXCEPT !.err = res[p],
                                   !.resp = errorHandler(res[p])]]
    /\ UNCHANGED <<products, nextOid, pc, call, loc, res, ops, retired,
                   authVars>>

\* the response is sent: the slot is free for the next request
Close(p) ==
    /\ http[p] /= NoHttp
    /\ http[p].resp /= NoResp
    /\ http' = [http EXCEPT ![p] = NoHttp]
    /\ pc' = [pc EXCEPT ![p] = "idle"]
    /\ call' = [call EXCEPT ![p] = NoCall]
    /\ res' = [res EXCEPT ![p] = NoResult]
    /\ ops' = [ops EXCEPT ![p] = NoOps]
    /\ loc' = [loc EXCEPT ![p] = Null]
    /\ UNCHANGED <<products, nextOid, retired, authVars>>

\* AuthMiddleware.verifyToken mounted as its doc comment shows:
\* app.use('/protected', authMiddleware.verifyToken, routeHandler)
VerifyToken(p) ==
    /\ pc[p] = "idle"
    /\ http[p] = NoHttp
    /\ \E token \in CookieTokens, now \in VerifyTimes :
        LET req == [route |-> "/protected", cookies |-> [token |-> token],
                    user |-> Undefined]
            to == verifyToken(req, now)
        IN  http' = [http EXCEPT ![p] =
                        [route |-> "/protected", cookies |-> req.cookies,
                         now |-> now,
                         handler |-> IF to.err = Null THEN "routeHandler"
                                     ELSE "errorHandler",
                         err |-> to.err, user |-> to.user,
                         resp |-> IF to.err = Null THEN json(NoResult)
                                  ELSE errorHandler(to.err)]]
    /\ UNCHANGED <<products, nextOid, pc, call, loc, res, ops, retired,
                   authVars>>

\* the Products collection as a deployment finds it: empty, or seeded
Seeds ==
    {{},
     {[oid |-> 1, id |-> 1, price |-> 2, disc |-> NoDisc]},
     {[oid |-> 1, id |-> 1, price |-> 2, disc |-> NoDisc],
      [oid |-> 2, id |-> 2, price |-> 1, disc |-> NoDisc]}}

HttpInit ==
    /\ InitSlots
    /\ products \in Seeds
    /\ nextOid = Cardinality(products) + 1
    /\ retired = {}
    /\ users = {}
    /\ nextUid = 1
    /\ env \in Envs

----------------------------------------------------------------------------
(* Specifications *)

ProductStep(p) ==
    \/ CreateRead(p)
    \/ CreateInsert(p)
    \/ UpdateFind(p)
    \/ UpdateSave(p)
    \/ DeleteFind(p)
    \/ DeleteRemove(p)
    \/ GetProductById(p)
    \/ GetAllProducts(p)
    \/ Return(p)

\* the product service, one request at a time
Next == ProductStep(Main)
Spec == Init /\ [][Next]_vars

\* createProduct requests of all slots, interleaved at their awaits
CreateRaceNext == \E p \in Req : CreateRead(p) \/ CreateInsert(p) \/ Return(p)
CreateRaceSpec == Init /\ [][CreateRaceNext]_vars

\* the auth service, one request at a time
AuthNext ==
    \/ RegisterFind(Main)
    \/ RegisterSave(Main)
    \/ Login(Main)
    \/ Return(Main)
AuthSpec == AuthInit /\ [][AuthNext]_vars

\* the product router, one request at a time
HttpNext ==
    \/ Request(Main)
    \/ Controller(Main)
    \/ Respond(Main)
    \/ Close(Main)
HttpSpec == HttpInit /\ [][HttpNext]_vars

\* the verifyToken middleware, one request at a time
VerifyNext ==
    \/ VerifyToken(Main)
    \/ Close(Main)
VerifySpec == AuthInit /\ [][VerifyNext]_vars

\* products in storage when the repository is called: none, one, two of
\* different prices, three of which two have the same price
Stores ==
    Seeds \cup {{[oid |-> 1, id |-> 1, price |-> 2, disc |-> NoDisc],
                 [oid |-> 2, id |-> 2, price |-> 1, disc |-> NoDisc],
                 [oid |-> 3, id |-> 3, price |-> 2, disc |-> 1]}}

\* the repository's listing alone, on one store, filter and options
RepoInit ==
    /\ pc = [p \in Req |-> "idle"]
    /\ loc = [p \in Req |-> Null]
    /\ res = [p \in Req |-> NoResult]
    /\ ops = [p \in Req |-> NoOps]
    /\ http = [p \in Req |-> NoHttp]
    /\ products \in Stores
    /\ nextOid = Cardinality(products) + 1
    /\ retired = {}
    /\ users = {} /\ nextUid = 1 /\ env = ReadmeEnv
    /\ \E filter \in Filters, options \in ListOptions :
            call = [p \in Req |->
                        IF p = Main
                        THEN [op |-> "find", filter |-> filter,
                              options |-> options]
                        ELSE NoCall]

RepoNext == FindWithPagination(Main)

RepoSpec == RepoInit /\ [][RepoNext]_vars

\* a database with products in it, the README's environment
SeededInit ==
    /\ InitSlots
    /\ products \in Seeds
    /\ nextOid = Cardinality(products) + 1
    /\ retired = {}
    /\ users = {}
    /\ nextUid = 1
    /\ env = ReadmeEnv

\* deleteProduct requests of all slots, interleaved at their awaits
DeleteRaceNext == \E p \in Req : DeleteFind(p) \/ DeleteRemove(p) \/ Return(p)
DeleteRaceSpec == SeededInit /\ [][DeleteRaceNext]_vars

\* one register request of each slot, interleaved at their awaits
RegisterRaceNext == \E p \in Req : RegisterFind(p) \/ RegisterSave(p)
RegisterRaceSpec == Init /\ [][RegisterRaceNext]_vars

\* one updateProduct or deleteProduct request of each slot, interleaved at
\* their awaits
UpdateDeleteNext ==
    \E p \in Req :
        \/ UpdateFind(p)
        \/ UpdateSave(p)
        \/ DeleteFind(p)
        \/ DeleteRemove(p)
UpdateDeleteSpec == SeededInit /\ [][UpdateDeleteNext]_vars

\* users in storage at startup: none, or one registered user
UserSeeds ==
    {{},
     {[uid |-> 1, email |-> <<97, 64, 98, 46, 99, 111>>,
       password |-> bcryptHash("secret1", "s1"), fullName |-> "Alice",
       role |-> ROLES.USER]}}

\* a database with products and users in it, in any deployment
FrameInit ==
    /\ InitSlots
    /\ products \in Seeds
    /\ nextOid = Cardinality(products) + 1
    /\ retired = {}
    /\ users \in UserSeeds
    /\ nextUid = Cardinality(users) + 1
    /\ env \in Envs

\* one call of the product service or of the auth service
FrameNext ==
    \/ CreateRead(Main)
    \/ CreateInsert(Main)
    \/ UpdateFind(Main)
    \/ UpdateSave(Main)
    \/ DeleteFind(Main)
    \/ DeleteRemove(Main)
    \/ GetProductById(Main)
    \/ GetAllProducts(Main)
    \/ RegisterFind(Main)
    \/ RegisterSave(Main)
    \/ Login(Main)
FrameSpec == FrameInit /\ [][FrameNext]_vars

\* the normalizer alone, on one raw query map
QueryInit ==
    /\ pc = [p \in Req |-> "idle"]
    /\ loc = [p \in Req |-> Null]
    /\ res = [p \in Req |-> NoResult]
    /\ ops = [p \in Req |-> NoOps]
    /\ http = [p \in Req |-> NoHttp]
    /\ products = {} /\ nextOid = 1 /\ retired = {}
    /\ users = {} /\ nextUid = 1 /\ env = ReadmeEnv
    /\ \E query \in QueryMaps :
            call = [p \in Req |-> IF p = Main
                                  THEN [op |-> "normalize", query |-> query]
                                  ELSE NoCall]

QueryNext == BuildQueryOptions(Main)

QuerySpec == QueryInit /\ [][QueryNext]_vars

----------------------------------------------------------------------------
(* Properties *)

\* slot p makes the first step of a call of op
Calls(p, op) == pc[p] = "idle" /\ pc'[p] /= "idle" /\ call'[p].op = op

\* slot p has finished a call of op and not yet answered
Done(p, op) == pc[p] = "done" /\ call[p].op = op

\* the storage engine answered every operation of the call of p
Answered(r) == r.code /= "MongoNetworkError" /\ r.details /= "MongoNetworkError"

\* C1: every finished service call returned an ApiSuccess or threw an
\* ApiError; no other exception left a service method.
C1_EnvelopeOnly ==
    \A p \in Req : pc[p] = "done" => res[p].kind \in {"ApiSuccess", "ApiError"}

\* C2: update with a present numeric id and a patch without keys fails with
\* MISSING_UPDATE_DATA, having issued no storage operation.
C2_MissingUpdateData ==
    \A p \in Req :
        (/\ Done(p, "update")
         /\ ~Falsy(call[p].id) /\ ToNumber(call[p].id) /= NaN
         /\ call[p].patch.t = "object" /\ Keys(call[p].patch) = {})
        => res[p].code = "MISSING_UPDATE_DATA" /\ ops[p] = NoOps

\* C3: create without data fails with MISSING_PRODUCT_DATA, status 400, and
\* has written nothing.
C3_MissingProductData ==
    \A p \in Req :
        (Done(p, "create") /\ call[p].data = Undefined)
        => /\ res[p].code = "MISSING_PRODUCT_DATA"
           /\ res[p].status = 400
           /\ ops[p].writes = 0

\* C4: with one request at a time, a create that succeeds adds exactly one
\* product, whose id is 1 when nothing is stored and the greatest stored id
\* plus one otherwise, whatever id the caller put in the data.
C4_NextId ==
    [][\A p \in Req :
        (pc[p] = "create_insert" /\ res'[p].code = "PRODUCT_CREATED")
        => /\ res'[p].data \notin products
           /\ products' = products \cup {res'[p].data}
           /\ res'[p].data.id =
                IF products = {} THEN 1 ELSE Max(Ids(products)) + 1]_vars

C4_Witness ==
    \E p \in Req :
        /\ Done(p, "create")
        /\ res[p].code = "PRODUCT_CREATED"
        /\ call[p].data.id = 1
        /\ res[p].data.id = 2
        /\ retired /= {}

\* C5 as stated: an id of a deleted product is never assigned by a later
\* create.
C5_NeverReused ==
    [][\A p \in Req :
        (pc[p] = "create_insert" /\ res'[p].code = "PRODUCT_CREATED")
        => res'[p].data.id \notin retired]_vars

\* C5 as amended: a create assigns an id greater than every id stored at
\* that time, so never one that a stored product has; the id of a deleted
\* product is assigned again once no stored id is as large.
C5_AboveStored ==
    [][\A p \in Req :
        (pc[p] = "create_insert" /\ res'[p].code = "PRODUCT_CREATED")
        => \A q \in products : q.id < res'[p].data.id]_vars

C5_Witness ==
    \E p \in Req :
        /\ Done(p, "create")
        /\ res[p].code = "PRODUCT_CREATED"
        /\ res[p].data.id \in retired
        /\ \E q \in products : q.id < res[p].data.id

\* C6: with concurrent creates, no two stored products share an id; of two
\* creates that read the same greatest id, at most one succeeds and the
\* other fails with PRODUCT_CREATE_ERROR, status 500; exactly one succeeds
\* when both bring valid data and the storage engine answers.
C6_UniqueIds ==
    /\ \A a, b \in products : a.id = b.id => a = b
    /\ \A p, q \in Req :
        (/\ p /= q
         /\ Done(p, "create") /\ Done(q, "create")
         /\ loc[p] /= Null /\ loc[p] = loc[q])
        => /\ ~(res[p].kind = "ApiSuccess" /\ res[q].kind = "ApiSuccess")
           /\ res[q].kind /= "ApiSuccess"
                => res[q].code = "PRODUCT_CREATE_ERROR" /\ res[q].status = 500
           /\ (/\ ProductValid(call[p].data) /\ ProductValid(call[q].data)
               /\ Answered(res[p]) /\ Answered(res[q]))
                => (res[p].kind = "ApiSuccess" \/ res[q].kind = "ApiSuccess")

C6_Witness ==
    \E p, q \in Req :
        /\ Done(p, "create") /\ Done(q, "create")
        /\ loc[p] /= Null /\ loc[p] = loc[q]
        /\ res[p].code = "PRODUCT_CREATED"
        /\ res[q].code = "PRODUCT_CREATE_ERROR"
        /\ res[q].details = "MongoServerError"

EqualIgnoringCase(a, b) == ToLowerCase(a) = ToLowerCase(b)

\* C7: no two stored users have emails equal ignoring case; with one request
\* at a time, a register whose email equals a stored one ignoring case fails
\* with EMAIL_EXISTS, status 400, and leaves the users as they were (when
\* the storage engine answers the lookup).
C7_EmailExists ==
    /\ [](\A u, v \in users : EqualIgnoringCase(u.email, v.email) => u = v)
    /\ [][\A p \in Req :
            (/\ Calls(p, "register")
             /\ call'[p].data.email.t = "string"
             /\ \E u \in users :
                    EqualIgnoringCase(u.email, call'[p].data.email.s)
             /\ Answered(res'[p]))
            => /\ pc'[p] = "done"
               /\ res'[p] = ApiError("EMAIL_EXISTS", 400)
               /\ users' = users]_vars

C7_Witness ==
    \E p \in Req :
        /\ Done(p, "register")
        /\ res[p].code = "EMAIL_EXISTS"
        /\ \E u \in users :
            /\ u.email /= call[p].data.email.s
            /\ EqualIgnoringCase(u.email, call[p].data.email.s)

\* C8: login fails with USER_NOT_FOUND, 404, when no user has the email;
\* with INVALID_PASSWORD, 401, when the user exists and the password does
\* not verify; and otherwise returns USER_LOGIN, 200, with a token whose
\* claims are the stored user's id, email, fullName and role (when the
\* storage engine answers the lookup).
C8_Login ==
    \A p \in Req :
        (Done(p, "login") /\ Answered(res[p]))
        => LET email == call[p].data.email
               password == call[p].data.password
               found == {u \in users :
                            email.t = "string" /\ u.email = castEmail(email.s)}
           IN  /\ found = {} => res[p] = ApiError("USER_NOT_FOUND", 404)
               /\ \A u \in found :
                    IF password.t = "string" /\ u.password.bcrypt = password.s
                    THEN /\ res[p].kind = "ApiSuccess"
                         /\ res[p].code = "USER_LOGIN"
                         /\ res[p].status = 200
                         /\ res[p].data.token.payload =
                                [id |-> u.uid, email |-> u.email,
                                 fullName |-> u.fullName, role |-> u.role]
                    ELSE res[p] = ApiError("INVALID_PASSWORD", 401)

\* C9: register with an empty or absent email, or one with a non-ASCII
\* character, fails with INVALID_EMAIL, status 400, before any lookup, and
\* creates no user.
C9_InvalidEmail ==
    \A p \in Req :
        (/\ Done(p, "register")
         /\ \/ Falsy(call[p].data.email)
            \/ \E i \in 1..Len(call[p].data.email.s) :
                    call[p].data.email.s[i] > 127)
        => /\ res[p].code = "INVALID_EMAIL"
           /\ res[p].status = 400
           /\ ops[p] = NoOps

\* C10: with one request at a time, delete with an absent id (undefined, "",
\* 0: what !id takes for absent) fails with MISSING_PRODUCT_ID, 400; with a
\* non-numeric id, with INVALID_PRODUCT_ID, 400; with a numeric id that no
\* stored product has, with PRODUCT_NOT_FOUND, 404, when the storage engine
\* answers the lookup; and in each case the products stay as they were.
C10_DeleteMisses ==
    [][\A p \in Req :
        Calls(p, "delete")
        => LET id == call'[p].id
           IN  /\ Falsy(id)
                    => res'[p] = ApiError("MISSING_PRODUCT_ID", 400)
               /\ (~Falsy(id) /\ ToNumber(id) = NaN)
                    => res'[p] = ApiError("INVALID_PRODUCT_ID", 400)
               /\ (/\ ~Falsy(id) /\ ToNumber(id) /= NaN
                   /\ ToNumber(id) \notin Ids(products)
                   /\ Answered(res'[p]))
                    => res'[p] = ApiError("PRODUCT_NOT_FOUND", 404)
               /\ (Falsy(id) \/ ToNumber(id) \notin Ids(products))
                    => pc'[p] = "done" /\ products' = products]_vars

C10_Witness ==
    \E p \in Req :
        /\ Done(p, "delete")
        /\ res[p] = ApiError("PRODUCT_NOT_FOUND", 404)
        /\ products /= {}
        /\ ToNumber(call[p].id) >= 1

\* C11: getProductById with an absent id (what !id takes for absent) fails
\* with MISSING_PRODUCT_ID, 400; with a non-numeric id, or a numeric id that
\* no stored product has, with PRODUCT_NOT_FOUND, 404; and otherwise returns
\* PRODUCT_FETCHED, 200, with the stored product of that numeric id (the
\* last two when the storage engine answers the lookup).
C11_GetProduct ==
    [][\A p \in Req :
        Calls(p, "get")
        => LET id == call'[p].id
               r == res'[p]
           IN  /\ pc'[p] = "done"
               /\ Falsy(id) => r = ApiError("MISSING_PRODUCT_ID", 400)
               /\ (~Falsy(id) /\ ToNumber(id) = NaN)
                    => r = ApiError("PRODUCT_NOT_FOUND", 404)
               /\ (/\ ~Falsy(id) /\ ToNumber(id) /= NaN /\ Answered(r)
                   /\ ToNumber(id) \notin Ids(products))
                    => r = ApiError("PRODUCT_NOT_FOUND", 404)
               /\ (/\ ~Falsy(id) /\ ToNumber(id) /= NaN /\ Answered(r)
                   /\ ToNumber(id) \in Ids(products))
                    => /\ r.kind = "ApiSuccess"
                       /\ r.code = "PRODUCT_FETCHED" /\ r.status = 200
                       /\ r.data \in products
                       /\ r.data.id = ToNumber(id)
               /\ products' = products]_vars

C11_Witness ==
    \E p \in Req :
        /\ Done(p, "get")
        /\ call[p].id = Str(<<50>>)
        /\ res[p].code = "PRODUCT_FETCHED"
        /\ res[p].data.id = 2
        /\ Cardinality(products) >= 2

\* a step that gives some stored product the id n, which none had
Assigns(n) == n \notin Ids(products) /\ n \in Ids(products')

\* a delete that succeeds removes the product of that id and no other
DeleteRemoves ==
    \A p \in Req :
        (pc[p] = "delete_remove" /\ res'[p].code = "PRODUCT_DELETED")
        => /\ res'[p].data \in products
           /\ res'[p].data.id = loc[p].n
           /\ products' = products \ {res'[p].data}
           /\ loc[p].n \notin Ids(products')

\* getProductById of an id deleted and not stored fails with
\* PRODUCT_NOT_FOUND
DeletedNotFound ==
    \A p \in Req :
        (/\ Calls(p, "get")
         /\ ToNumber(call'[p].id) \in retired \ Ids(products)
         /\ Answered(res'[p]))
        => res'[p] = ApiError("PRODUCT_NOT_FOUND", 404)

\* C12 as stated: with one request at a time, a delete that returns
\* PRODUCT_DELETED removes the product of that id and leaves every other
\* product as it was; from then on getProductById of that id fails with
\* PRODUCT_NOT_FOUND, and only a create that is assigned the id brings it
\* back.
C12_DeletedUntilCreate ==
    [][/\ DeleteRemoves
       /\ DeletedNotFound
       /\ \A n \in retired :
            Assigns(n)
            => \E p \in Req : /\ pc[p] = "create_insert"
                              /\ res'[p].code = "PRODUCT_CREATED"
                              /\ res'[p].data.id = n]_vars

\* C12 as amended: the id comes back by a create that is assigned it or by
\* an update whose patch sets the id of another product to it.
C12_DeletedUntilAssigned ==
    [][/\ DeleteRemoves
       /\ DeletedNotFound
       /\ \A n \in retired :
            Assigns(n)
            => \E p \in Req :
                \/ /\ pc[p] = "create_insert"
                   /\ res'[p].code = "PRODUCT_CREATED"
                   /\ res'[p].data.id = n
                \/ /\ pc[p] = "update_save"
                   /\ res'[p].code = "PRODUCT_UPDATED"
                   /\ call[p].patch.id = n
                   /\ res'[p].data.id = n]_vars

C12_Witness ==
    \E p \in Req :
        /\ Done(p, "get")
        /\ ToNumber(call[p].id) \in retired \ Ids(products)
        /\ res[p] = ApiError("PRODUCT_NOT_FOUND", 404)
        /\ products /= {}

\* C16: a register that succeeds returns the userId and nothing else, and
\* the user it stored holds a bcrypt hash that the plaintext verifies
\* against, never the plaintext; a login that succeeds returns the token and
\* the claims id, email, fullName, role and nothing else; no stored user's
\* password is a plaintext.
C16_NoPassword ==
    /\ \A u \in users : u.password \notin PasswordArgs
    /\ \A p \in Req :
        (Done(p, "register") /\ res[p].kind = "ApiSuccess")
        => /\ DOMAIN res[p].data = {"userId"}
           /\ \E u \in users :
                /\ u.uid = res[p].data.userId
                /\ u.password /= call[p].data.password
                /\ bcryptCompare(call[p].data.password.s, u.password)
    /\ \A p \in Req :
        (Done(p, "login") /\ res[p].kind = "ApiSuccess")
        => /\ DOMAIN res[p].data = {"token", "user"}
           /\ DOMAIN res[p].data.user = {"id", "email", "fullName", "role"}
           /\ DOMAIN res[p].data.token.payload =
                {"id", "email", "fullName", "role"}

C16_Witness ==
    \E p \in Req :
        /\ Done(p, "login")
        /\ res[p].code = "USER_LOGIN"
        /\ \E u \in users :
            /\ u.uid = res[p].data.user.id
            /\ u.password.bcrypt = call[p].data.password.s

\* C17: every token of a login that succeeds expires 7 days after its
\* issue, whatever the environment holds.
C17_SevenDays ==
    \A p \in Req :
        (Done(p, "login") /\ res[p].kind = "ApiSuccess")
        => res[p].data.token.exp = res[p].data.token.iat + 7 * 24 * 60 * 60

\* C18: a create whose data has a discountPrice greater than or equal to its
\* price fails with PRODUCT_CREATE_ERROR, status 500, and stores nothing:
\* the products, and so the greatest stored id, stay as they were.
C18_DiscountRejected ==
    [][\A p \in Req :
        (/\ pc[p] \in {"idle", "create_insert"}
         /\ pc'[p] = "done"
         /\ call'[p].op = "create"
         /\ call'[p].data /= Undefined
         /\ call'[p].data.disc /= NoDisc
         /\ call'[p].data.disc >= call'[p].data.price)
        => /\ res'[p].kind = "ApiError"
           /\ res'[p].code = "PRODUCT_CREATE_ERROR"
           /\ res'[p].status = 500
           /\ ops'[p].writes = 0
           /\ products' = products
           /\ getLastId(products') = getLastId(products)]_vars

C18_Witness ==
    \E p \in Req :
        /\ Done(p, "create")
        /\ call[p].data /= Undefined
        /\ call[p].data.disc = 2 /\ call[p].data.price = 2
        /\ res[p].code = "PRODUCT_CREATE_ERROR"
        /\ res[p].details = "ValidationError"
        /\ products /= {}

\* C20: getAllProducts returns PRODUCTS_FETCHED, 200, with a list that the
\* storage engine can return for the normalized filter and options: stored
\* products that match the filter, each once, in the order asked for, and as
\* many as the page (or the sample) holds; when the storage call fails it
\* fails with the ApiError PRODUCTS_FETCH_ERROR, 500; the products stay as
\* they were.
C20_ListProducts ==
    [][\A p \in Req :
        Calls(p, "list")
        => LET r == res'[p]
               q == buildQueryOptions(call'[p].query)
               M == {x \in products :
                        "price" \in DOMAIN q.filter
                            => x.price >= q.filter.price.gte}
               n == IF q.options.random
                    THEN Min(q.options.limit, Cardinality(M))
                    ELSE IF Cardinality(M) <= q.options.skip THEN 0
                    ELSE Min(q.options.limit,
                             Cardinality(M) - q.options.skip)
           IN  /\ pc'[p] = "done"
               /\ products' = products
               /\ r.kind \in {"ApiSuccess", "ApiError"}
               /\ r.kind = "ApiError"
                    => r.code = "PRODUCTS_FETCH_ERROR" /\ r.status = 500
               /\ r.kind = "ApiSuccess"
                    => /\ r.code = "PRODUCTS_FETCHED" /\ r.status = 200
                       /\ Len(r.data) = n
                       /\ \A i \in 1..n : r.data[i] \in M
                       /\ \A i, j \in 1..n : r.data[i] = r.data[j] => i = j
                       /\ ~q.options.random
                            => \A i, j \in 1..n :
                                (i < j /\ q.options.sort = "price")
                                    => r.data[i].price <= r.data[j].price
                       /\ ~q.options.random
                            => \A i, j \in 1..n :
                                (i < j /\ q.options.sort = "-price")
                                    => r.data[i].price >= r.data[j].price]_vars

C20_Witness ==
    \E p \in Req :
        /\ Done(p, "list")
        /\ res[p].code = "PRODUCTS_FETCHED"
        /\ call[p].query.sort = Str("-price")
        /\ Len(res[p].data) = 2
        /\ res[p].data[1].price > res[p].data[2].price

\* the cookie of the request h holds a token that verifies at the time of h
ValidToken(h) ==
    jwtVerify(h.cookies.token, env.JWT_SECRET, h.now).kind = "decoded"

\* the role claim of the token of h
RoleClaim(h) == h.cookies.token.payload.role

\* C13: a request to an admin route gets to create, update or delete only
\* with a token that verifies and has the role admin; with a token that
\* verifies and has another role it is answered 403 FORBIDDEN, without one
\* that verifies 401, and in both cases no storage operation is issued; the
\* two GET routes get to their controller methods whatever the cookie.
C13_AdminOnly ==
    \A p \in Req :
        http[p] /= NoHttp
        => LET h == http[p]
           IN  /\ h.route \in AdminRoutes
                    => /\ h.handler \in {"create", "update", "delete"}
                            => ValidToken(h) /\ RoleClaim(h) = ROLES.ADMIN
                       /\ (ValidToken(h) /\ RoleClaim(h) /= ROLES.ADMIN)
                            => /\ h.resp.status = 403
                               /\ h.resp.body.errorCode = "FORBIDDEN"
                               /\ ops[p] = NoOps
                       /\ ~ValidToken(h)
                            => h.resp.status = 401 /\ ops[p] = NoOps
               /\ h.route \in {"GET /", "GET /:id"}
                    => h.handler = MethodOf(h.route)

\* C14: a request to an admin route with a token that verifies and has the
\* role admin gets to the controller method of its route.
C14_AdminReaches ==
    \A p \in Req :
        (/\ http[p] /= NoHttp
         /\ http[p].route \in AdminRoutes
         /\ ValidToken(http[p])
         /\ RoleClaim(http[p]) = ROLES.ADMIN)
        => http[p].handler = MethodOf(http[p].route)

\* C15: verifyToken calls next() without an error, with req.user the
\* decoded claims, exactly when the cookie holds a token that is signed with
\* the key of the deployment and has not expired; otherwise it forwards the
\* ApiError NO_TOKEN (no cookie), INVALID_TOKEN (malformed or wrongly
\* signed) or TOKEN_EXPIRED, each with status 401, and req.user is not set.
C15_VerifyToken ==
    \A p \in Req :
        (http[p] /= NoHttp /\ http[p].route = "/protected")
        => LET h == http[p]
               token == h.cookies.token
               present == ~Falsy(token)
               signed == /\ token.t = "jwt"
                         /\ env.JWT_SECRET /= Undefined
                         /\ token.secret = env.JWT_SECRET.s
               unexpired == h.now < token.exp
           IN  /\ h.err = Null <=> (present /\ signed /\ unexpired)
               /\ h.err = Null
                    => /\ h.handler = "routeHandler"
                       /\ h.user.id = token.payload.id
                       /\ h.user.email = token.payload.email
                       /\ h.user.fullName = token.payload.fullName
                       /\ h.user.role = token.payload.role
                       /\ h.user.exp = token.exp
               /\ h.err /= Null
                    => /\ h.user = Undefined
                       /\ h.err =
                            ApiError(IF ~present THEN "NO_TOKEN"
                                     ELSE IF ~signed THEN "INVALID_TOKEN"
                                     ELSE "TOKEN_EXPIRED", 401)
                       /\ h.resp.status = 401

C15_Witness ==
    \E p \in Req :
        /\ http[p] /= NoHttp
        /\ http[p].route = "/protected"
        /\ http[p].err = ApiError("TOKEN_EXPIRED", 401)
        /\ http[p].now = http[p].cookies.token.exp
        /\ http[p].cookies.token.secret = env.JWT_SECRET.s

\* C19: the error handler renders an operational error with its own
\* status, message, errorCode and details, and every other error as status
\* 500 with errorCode INTERNAL_SERVER_ERROR and the fixed message, the body
\* holding nothing of the error.
C19_ErrorHandler ==
    \A p \in Req :
        (http[p] /= NoHttp /\ http[p].err /= Null)
        => LET err == http[p].err
               resp == http[p].resp
           IN  IF isOperational(err)
               THEN /\ resp.status = err.status
                    /\ resp.body.message = messageOf(err)
                    /\ resp.body.errorCode = err.code
                    /\ resp.body.details = err.details
               ELSE /\ resp.status = 500
                    /\ DOMAIN resp.body = {"success", "message", "errorCode"}
                    /\ resp.body.errorCode = "INTERNAL_SERVER_ERROR"
                    /\ resp.body.message =
                            "Something went wrong! Please check logs."
                    /\ resp.body.message /= messageOf(err)

C19_Witness ==
    \E p \in Req :
        /\ http[p] /= NoHttp
        /\ http[p].err /= Null
        /\ ~isOperational(http[p].err)
        /\ http[p].resp.status = 500

\* C22: for every raw query map the normalizer returns a filter and options;
\* a page that is absent or not a number gives page 1, a limit that is absent
\* or not a number gives the default limit, and always page >= 1 and
\* limit >= 1.
C22_Normalizes ==
    \A p \in Req :
        Done(p, "normalize")
        => LET q == call[p].query
               o == res[p].options
               NotNumeric(x) == x.t = "undefined" \/ ToNumber(x) = NaN
           IN  /\ DOMAIN res[p] = {"filter", "options"}
               /\ NotNumeric(Get(q, "page")) => o.page = 1
               /\ NotNumeric(Get(q, "limit")) => o.limit = DefaultLimit
               /\ o.page >= 1
               /\ o.limit >= 1

C22_Witness ==
    \E p \in Req :
        /\ Done(p, "normalize")
        /\ Get(call[p].query, "page") = Str(<<97>>)
        /\ Get(call[p].query, "limit") = Str(<<97>>)
        /\ res[p].options.page = 1

\* C23: the normalized options satisfy skip = (page - 1) * limit and
\* skip >= 0; minPrice=50, maxPrice=100, page=2, limit=5 gives the filter with
\* the one range 50 <= price <= 100, skip 5, limit 5 and the default sort.
C23_Skip ==
    \A p \in Req :
        Done(p, "normalize")
        => LET q == call[p].query
               o == res[p].options
               f == res[p].filter
           IN  /\ o.skip = (o.page - 1) * o.limit
               /\ o.skip >= 0
               /\ ( /\ Get(q, "minPrice") = Str(<<53, 48>>)
                    /\ Get(q, "maxPrice") = Str(<<49, 48, 48>>)
                    /\ Get(q, "page") = Str(<<50>>)
                    /\ Get(q, "limit") = Str(<<53>>)
                    /\ \A k \in DOMAIN q \ {"minPrice", "maxPrice", "page",
                                              "limit", "role"} :
                            q[k] = Undefined )
                    => /\ DOMAIN f = {"price"}
                       /\ f.price = [gte |-> 50, lte |-> 100]
                       /\ o.skip = 5 /\ o.limit = 5
                       /\ o.sort = "natural"

C23_Witness ==
    \E p \in Req :
        /\ Done(p, "normalize")
        /\ Get(call[p].query, "minPrice") = Str(<<53, 48>>)
        /\ Get(call[p].query, "maxPrice") = Str(<<49, 48, 48>>)
        /\ Get(call[p].query, "page") = Str(<<50>>)
        /\ Get(call[p].query, "limit") = Str(<<53>>)
        /\ res[p].options.skip = 5

\* two raw query maps give the same value to every key of K
Agree(q1, q2, K) == \A k \in K : Get(q1, k) = Get(q2, k)

\* two filters constrain the same fields in the same way
SameFilter(f, g) == DOMAIN f = DOMAIN g /\ \A k \in DOMAIN f : f[k] = g[k]

\* C24 as stated: two raw query maps that agree on category, subCategory,
\* minPrice, maxPrice, isFeatured and isFlash give the same filter and the
\* same options.
C24_FilterKeysDecideAll ==
    \A p \in Req :
        Done(p, "normalize")
        => \A q2 \in QueryMaps :
            Agree(call[p].query, q2, FilterParams)
            => /\ SameFilter(buildQueryOptions(q2).filter, res[p].filter)
               /\ buildQueryOptions(q2).options = res[p].options

\* C24: two raw query maps that agree on category, subCategory, minPrice,
\* maxPrice, isFeatured and isFlash give the same filter; two that agree on
\* these and on page, limit, sort and random give the same filter and the
\* same options; the filter constrains no field but category, subCategory,
\* price, isFeatured and isFlash; a map without a value for any of the six
\* keys gives the empty filter.
C24_AllowList ==
    \A p \in Req :
        Done(p, "normalize")
        => /\ \A q2 \in QueryMaps :
                /\ Agree(call[p].query, q2, FilterParams)
                    => SameFilter(buildQueryOptions(q2).filter, res[p].filter)
                /\ Agree(call[p].query, q2, FilterParams \cup OptionParams)
                    => buildQueryOptions(q2).options = res[p].options
           /\ DOMAIN res[p].filter \subseteq
                {"category", "subCategory", "price", "isFeatured", "isFlash"}
           /\ (\A k \in FilterParams : Get(call[p].query, k) = Undefined)
                => DOMAIN res[p].filter = {}

C24_Witness ==
    \E p \in Req :
        /\ Done(p, "normalize")
        /\ Get(call[p].query, "role") = Str("admin")
        /\ Get(call[p].query, "category") = Str("c")
        /\ DOMAIN res[p].filter = {"category"}

\* the stored products that the filter of the call of p selects
Selected(p) ==
    {x \in products :
        "price" \in DOMAIN call[p].filter
        => /\ call[p].filter.price.gte /= Absent
                => x.price >= call[p].filter.price.gte
           /\ call[p].filter.price.lte /= Absent
                => x.price <= call[p].filter.price.lte}

\* x comes no later than y in the order sort
NotAfter(x, y, sort) ==
    CASE sort = "price" -> x.price <= y.price
      [] sort = "-price" -> x.price >= y.price
      [] OTHER -> TRUE

\* C21: with options.random the listing is limit of the stored products that
\* satisfy the filter, or all of them when they are fewer, each once, whatever
\* skip and sort are; without it the listing is the products that satisfy
\* the filter, in the order of sort, without the first skip of them, and at
\* most limit of the rest.
C21_FindWithPagination ==
    \A p \in Req :
        Done(p, "find")
        => LET r == res[p]
               o == call[p].options
               M == Selected(p)
               In == {r[i] : i \in 1..Len(r)}
           IN  /\ Len(r) <= o.limit
               /\ In \subseteq M
               /\ Cardinality(In) = Len(r)
               /\ o.random => Len(r) = Min(o.limit, Cardinality(M))
               /\ ~o.random
                    => /\ \A i, j \in 1..Len(r) :
                            i < j => NotAfter(r[i], r[j], o.sort)
                       /\ \E D \in SUBSET (M \ In) :
                            /\ Cardinality(D) = Min(o.skip, Cardinality(M))
                            /\ \A x \in D, y \in M \ D :
                                    NotAfter(x, y, o.sort)
                            /\ \A x \in In, y \in M \ (D \cup In) :
                                    NotAfter(x, y, o.sort)
                            /\ Len(r) = Min(o.limit, Cardinality(M \ D))

C21_Witness ==
    \E p \in Req :
        /\ Done(p, "find")
        /\ call[p].options.random
        /\ call[p].options.skip = 2
        /\ call[p].options.sort = "price"
        /\ Len(res[p]) = 2
        /\ res[p][1].price > res[p][2].price

Updates(p) ==
    /\ pc[p] = "update_save"
    /\ pc'[p] = "done"
    /\ res'[p].code = "PRODUCT_UPDATED"

\* the stored products are as before but for q, which has the fields of the
\* patch set to the patch's values and its other fields as they were
OnlyPatched(q, patch) ==
    \E n \in products' :
        /\ products' = (products \ {q}) \cup {n}
        /\ n.oid = q.oid
        /\ \A k \in PatchFields :
                n[k] = IF k \in Keys(patch) THEN patch[k] ELSE q[k]

C26_OneDeletes ==
    [][\A p \in Req :
        (pc[p] /= "done" /\ pc'[p] = "done" /\ call'[p].op = "delete"
            /\ ~Falsy(call'[p].id) /\ ToNumber(call'[p].id) /= NaN
            /\ Answered(res'[p]))
        => /\ res'[p].code \in {"PRODUCT_DELETED", "PRODUCT_NOT_FOUND"}
           /\ res'[p].code = "PRODUCT_DELETED"
                => /\ res'[p].data /= Null
                   /\ res'[p].data \in products \ products'
                   /\ \A q \in Req \ {p} :
                        (Done(q, "delete")
                            /\ ToNumber(call[q].id) = ToNumber(call[p].id))
                        => res[q].code /= "PRODUCT_DELETED"
           /\ res'[p].code = "PRODUCT_NOT_FOUND" => products' = products]_vars

\* C25: no two stored users have the same email; a register call that ends
\* while a user with its email is stored, its data valid and the storage
\* engine having answered, fails with an ApiError and stores nothing.
C25_RegisterRace ==
    [][/\ \A u, v \in users' : u.email = v.email => u = v
       /\ \A p \in Req :
            (pc[p] /= "done" /\ pc'[p] = "done" /\ call'[p].op = "register"
                /\ findByEmail(users, call'[p].data.email) /= Null
                /\ res'[p].code \notin {"MongoNetworkError", "ValidationError"})
            => res'[p].kind = "ApiError" /\ users' = users]_vars

\* C29: no update step stores a document that was not stored before it, so a
\* product that a delete removed does not come back through an update; and
\* an update returns PRODUCT_UPDATED only when the document it loaded is
\* stored as its write completes, with the modified fields of the patch.
C29_UpdateAfterDelete ==
    [][\A p \in Req :
        (pc[p] = "update_save" /\ pc'[p] = "done")
        => /\ {q.oid : q \in products'} = {q.oid : q \in products}
           /\ res'[p].code = "PRODUCT_UPDATED"
                => \E q \in products' :
                    /\ q.oid = loc[p].oid
                    /\ \A k \in Modified(loc[p], call[p].patch) :
                            q[k] = call[p].patch[k]]_vars

C29_Witness ==
    \E p, d \in Req :
        /\ Done(p, "update")
        /\ Done(d, "delete")
        /\ res[d].code = "PRODUCT_DELETED"
        /\ res[d].data /= Null
        /\ res[d].data = loc[p]
        /\ ops[p].reads = 2
        /\ res[p].details = "DocumentNotFoundError"

\* C30: a call of getAllProducts, getProductById or login leaves the stored
\* products and users as they were; a call of any operation that ends with
\* status 400 or 404 has issued no write, and its last step, like every step
\* before it, leaves the stored products and users as they were.
C30_Frame ==
    [][\A p \in Req :
        /\ (pc'[p] /= pc[p] /\ call'[p].op \in {"list", "get", "login"})
            => products' = products /\ users' = users
        /\ (pc[p] /= "done" /\ pc'[p] = "done"
                /\ res'[p].status \in {400, 404})
            => /\ products' = products
               /\ users' = users
               /\ ops'[p].writes = 0]_vars

C30_Witness ==
    \E p \in Req :
        /\ Done(p, "register")
        /\ res[p].code = "EMAIL_EXISTS"
        /\ res[p].status = 400
        /\ users /= {}
        /\ products /= {}
====
